---- MODULE Spec2Model ----
(***************************************************************************)
(* Model of the llms-txt build plugin of the documentation site            *)
(* (docusaurus.config.js, plugin "llms-txt-plugin"): loadContent walks the *)
(* docs tree and collects the nitrolite documents, postBuild writes        *)
(* llms-full.txt and derives llms.txt from the route table.                *)
(*                                                                         *)
(* Text is a sequence of one-character strings.  An optional JavaScript    *)
(* value (undefined or a value v) is the tuple <<>> or <<v>>.              *)
(***************************************************************************)
EXTENDS Integers, Sequences, FiniteSets, TLC

\* ------------------------------------------------------------ bounds ----
\* Largest number of file-system entries below the content root.
MaxNodes == 3
\* Largest number of entries of a version.docs mapping.
MaxDocs == 2
\* Largest number of builds in a row into the same outDir.
MaxBuilds == 2

\* ------------------------------------------------------- text helpers ----
Some(v) == <<v>>
None == <<>>
IsSome(o) == o # <<>>

\* String.prototype.includes
Includes(s, sub) ==
    \E i \in 1..(Len(s) - Len(sub) + 1) : SubSeq(s, i, i + Len(sub) - 1) = sub

\* String.prototype.endsWith
EndsWith(s, suf) ==
    /\ Len(suf) <= Len(s)
    /\ SubSeq(s, Len(s) - Len(suf) + 1, Len(s)) = suf

StartsWith(s, pre) ==
    /\ Len(pre) <= Len(s)
    /\ SubSeq(s, 1, Len(pre)) = pre

\* path.join(a, b) for a plain entry name b (no "/", "." or ".." segment)
PathJoin(a, b) == a \o <<"/">> \o b

\* A join that also terminates the last element with the separator
RECURSIVE JoinTerminated(_, _)
JoinTerminated(arr, sep) ==
    IF arr = <<>> THEN <<>> ELSE arr[1] \o sep \o JoinTerminated(Tail(arr), sep)

\* Array.prototype.join
RECURSIVE Join(_, _)
Join(arr, sep) ==
    IF arr = <<>> THEN <<>>
    ELSE IF Len(arr) = 1 THEN arr[1]
    ELSE arr[1] \o sep \o Join(Tail(arr), sep)

\* The pieces of a text between the occurrences of the character ch
RECURSIVE Split(_, _)
Split(s, ch) ==
    IF \A i \in 1..Len(s) : s[i] # ch THEN <<s>>
    ELSE LET k == CHOOSE i \in 1..Len(s) :
                      s[i] = ch /\ \A j \in 1..(i - 1) : s[j] # ch
         IN  <<SubSeq(s, 1, k - 1)>> \o Split(SubSeq(s, k + 1, Len(s)), ch)

\* ---------------------------------------------------- program constants ----
NITROLITE == <<"n","i","t","r","o","l","i","t","e">>
EXT_MDX == <<".","m","d","x">>
EXT_MD == <<".","m","d">>
DOCS == <<"d","o","c","s">>
SEPARATOR == <<"\n","\n","-","-","-","\n","\n">>
LLMS_FULL == "llms-full.txt"
LLMS_TXT == "llms.txt"
DOCS_PLUGIN == "docusaurus-plugin-content-docs"
\* config.title
siteTitle ==
    <<"E","R","C","7","8","2","4"," ","S","t","a","t","e"," ",
      "c","h","a","n","n","e","l","s"," ",
      "f","r","a","m","e","w","o","r","k">>

\* ------------------------------------------------------- file system ----
\* A directory entry (fs.Dirent plus what it names).  A directory carries
\* its listing in readdir order, a file its utf8 content.
File(n, c) == [name |-> n, kind |-> "file", content |-> c, entries |-> <<>>]
Dir(n, es) == [name |-> n, kind |-> "dir", content |-> <<>>, entries |-> es]

\* A symbolic link: what it holds is the path it points to, relative to the
\* directory it is in.
Link(n, t) == [name |-> n, kind |-> "link", content |-> t, entries |-> <<>>]

\* Dirent.isDirectory
isDirectory(entry) == entry.kind = "dir"

DistinctNames(es) ==
    \A i, j \in 1..Len(es) : es[i].name = es[j].name => i = j

\* Entry names are unique within every directory of the tree.
RECURSIVE WellFormed(_)
WellFormed(es) ==
    /\ DistinctNames(es)
    /\ \A i \in 1..Len(es) : WellFormed(es[i].entries)

\* Documents and directory names the trees are built from.
FileNameA == <<"a",".","m","d">>
FileNameB == <<"b",".","m","d","x">>
FileNameC == <<"c",".","m","d">>
FileNameT == <<"t",".","t","x","t">>
DirNameG == <<"g">>
Hi == <<"H","i">>
Yo == <<"Y","o">>
Files ==
    { File(FileNameA, Hi), File(FileNameB, Yo),
      File(FileNameC, Hi), File(FileNameT, Yo) }
DirNames == { NITROLITE, DirNameG }

\* The listings with exactly n entries below them, names distinct per listing.
RECURSIVE Forests(_)
Forests(n) ==
    IF n = 0 THEN { <<>> }
    ELSE UNION { { <<e>> \o r :
                     e \in (IF k = 1 THEN Files ELSE {}) \cup
                           { Dir(d, es) : d \in DirNames, es \in Forests(k - 1) },
                     r \in Forests(n - k) } :
                 k \in 1..n }

Trees == { t \in UNION { Forests(n) : n \in 0..MaxNodes } : WellFormed(t) }

\* ------------------------------------------------------------- state ----
VARIABLES
    siteDir,    \* context.siteDir
    tree,       \* the listing of the content root, recursively
    routes,     \* the route table the framework hands to postBuild
    out,        \* the files of outDir: name -> optional text
    pc,         \* position of the build in the plugin's lifecycle
    stack,      \* activation records of getMdxFiles, innermost last
    io,         \* the file-system operation being awaited, if any
    allMdx,     \* the array loadContent accumulates
    content,    \* what loadContent resolved with, if it has
    written,    \* the output files this build has written, in order
    error,      \* the error the hook rejected with, if any
    log,        \* lines the plugin printed to the console
    fsCalls,    \* the fs calls of this build that have settled, in order
    later,      \* the inputs of the builds still to come
    prev        \* how the previous build ended, if there was one

vars == <<siteDir, tree, routes, out, pc, stack, io, allMdx, content,
          written, error, log, fsCalls, later, prev>>

\* A settled call of fs.promises.readdir / readFile / writeFile or of
\* fs.writeFileSync
Call(o, p, ok) == [op |-> o, path |-> p, ok |-> ok]

contentDir == PathJoin(siteDir, DOCS)

\* The entry a path below the content root names, if any.
RECURSIVE Walk(_, _)
Walk(es, segs) ==
    LET hit == { i \in 1..Len(es) : es[i].name = segs[1] }
    IN  IF hit = {} THEN None
        ELSE LET e == es[CHOOSE i \in hit : TRUE]
             IN  IF Len(segs) = 1 THEN Some(e) ELSE Walk(e.entries, Tail(segs))

Resolve(p) ==
    IF p = contentDir THEN Some(Dir(DOCS, tree))
    ELSE IF ~StartsWith(p, contentDir \o <<"/">>) THEN None
    ELSE Walk(tree, Split(SubSeq(p, Len(contentDir) + 2, Len(p)), "/"))

\* path.dirname
Dirname(p) ==
    LET k == CHOOSE i \in 1..Len(p) :
                 p[i] = "/" /\ \A j \in (i + 1)..Len(p) : p[j] # "/"
    IN  SubSeq(p, 1, k - 1)

PARENT == <<".", ".">>

\* Where the link at path p points, t being what the link holds
LinkTarget(p, t) ==
    IF t = PARENT THEN Dirname(Dirname(p)) ELSE PathJoin(Dirname(p), t)

\* What readdir and readFile open for a path: the entry it names or, for a
\* symbolic link, the entry the link points to.
Follow(p) ==
    LET node == Resolve(p)
    IN  IF node # None /\ node[1].kind = "link"
        THEN Resolve(LinkTarget(p, node[1].content))
        ELSE node

\* fs.promises.readdir(dir, {withFileTypes: true}): the Dirents of dir
Dirents(es) == [i \in 1..Len(es) |-> [name |-> es[i].name, kind |-> es[i].kind]]

\* The test with the substring looked for below the content root only
MatchesBelowRoot(entry, fullPath) ==
    /\ EndsWith(entry.name, EXT_MDX) \/ EndsWith(entry.name, EXT_MD)
    /\ Includes(SubSeq(fullPath, Len(contentDir) + 1, Len(fullPath)), NITROLITE)

\* The test with the .md alternative left out
MatchesMdxOnly(entry, fullPath) ==
    /\ EndsWith(entry.name, EXT_MDX)
    /\ Includes(fullPath, NITROLITE)

\* The test that admits a file to the corpus
Matches(entry, fullPath) ==
    /\ EndsWith(entry.name, EXT_MDX) \/ EndsWith(entry.name, EXT_MD)
    /\ Includes(fullPath, NITROLITE)

Top == stack[Len(stack)]
SetTop(f) == [stack EXCEPT ![Len(stack)] = f]
Frame(d) == [dir |-> d, entries |-> None, i |-> 1]
Op(o, p, d) == [op |-> o, path |-> p, data |-> d]

\* ------------------------------------------------------- loadContent ----
\* A loadContent that goes on with the array of the call before
loadContentKeepsArray ==
    /\ pc = "start"
    /\ pc' = "loadContent"
    /\ allMdx' = allMdx
    /\ stack' = << Frame(contentDir) >>
    /\ io' = Some(Op("readdir", contentDir, <<>>))
    /\ UNCHANGED <<siteDir, tree, routes, out, content, written, error, log,
                   fsCalls, later, prev>>

\* A loadContent that first removes the output files of the build before
loadContentCleans ==
    /\ pc = "start"
    /\ pc' = "loadContent"
    /\ allMdx' = <<>>
    /\ stack' = << Frame(contentDir) >>
    /\ io' = Some(Op("readdir", contentDir, <<>>))
    /\ out' = [f \in DOMAIN out |-> None]
    /\ UNCHANGED <<siteDir, tree, routes, content, written, error, log,
                   fsCalls, later, prev>>

\* The framework calls loadContent; getMdxFiles(contentDir) starts listing.
loadContent ==
    /\ pc = "start"
    /\ pc' = "loadContent"
    /\ allMdx' = <<>>
    /\ stack' = << Frame(contentDir) >>
    /\ io' = Some(Op("readdir", contentDir, <<>>))
    /\ UNCHANGED <<siteDir, tree, routes, out, content, written, error, log,
                   fsCalls, later, prev>>

\* The awaited readdir resolves with the directory's entries.
readdirResolves ==
    /\ pc = "loadContent"
    /\ IsSome(io) /\ io[1].op = "readdir"
    /\ LET node == Follow(io[1].path)
       IN  /\ IsSome(node) /\ isDirectory(node[1])
           /\ stack' = SetTop([Top EXCEPT !.entries = Some(Dirents(node[1].entries))])
    /\ io' = None
    /\ fsCalls' = Append(fsCalls, Call("readdir", io[1].path, TRUE))
    /\ UNCHANGED <<siteDir, tree, routes, out, pc, allMdx, content, written,
                   error, log, later, prev>>

\* An iteration that goes into a directory only if its path passes the
\* substring test
visitEntryPrunes ==
    /\ pc = "loadContent"
    /\ io = None
    /\ IsSome(Top.entries)
    /\ Top.i <= Len(Top.entries[1])
    /\ LET entry == Top.entries[1][Top.i]
           fullPath == PathJoin(Top.dir, entry.name)
       IN  IF isDirectory(entry) /\ Includes(fullPath, NITROLITE)
           THEN /\ stack' = Append(stack, Frame(fullPath))
                /\ io' = Some(Op("readdir", fullPath, <<>>))
           ELSE IF ~isDirectory(entry) /\ Matches(entry, fullPath)
           THEN /\ io' = Some(Op("readFile", fullPath, <<>>))
                /\ UNCHANGED stack
           ELSE /\ stack' = SetTop([Top EXCEPT !.i = @ + 1])
                /\ UNCHANGED io
    /\ UNCHANGED <<siteDir, tree, routes, out, pc, allMdx, content, written,
                   error, log, fsCalls, later, prev>>

\* An iteration that takes for a directory whatever fs.stat says is one, a
\* link to a directory included
visitEntryStats ==
    /\ pc = "loadContent"
    /\ io = None
    /\ IsSome(Top.entries)
    /\ Top.i <= Len(Top.entries[1])
    /\ LET entry == Top.entries[1][Top.i]
           fullPath == PathJoin(Top.dir, entry.name)
           to == Follow(fullPath)
       IN  IF to # None /\ to[1].kind = "dir"
           THEN /\ stack' = Append(stack, Frame(fullPath))
                /\ io' = Some(Op("readdir", fullPath, <<>>))
           ELSE IF Matches(entry, fullPath)
           THEN /\ io' = Some(Op("readFile", fullPath, <<>>))
                /\ UNCHANGED stack
           ELSE /\ stack' = SetTop([Top EXCEPT !.i = @ + 1])
                /\ UNCHANGED io
    /\ UNCHANGED <<siteDir, tree, routes, out, pc, allMdx, content, written,
                   error, log, fsCalls, later, prev>>

\* An iteration that reads every file, whether it passes the test or not
visitEntryReadsAll ==
    /\ pc = "loadContent"
    /\ io = None
    /\ IsSome(Top.entries)
    /\ Top.i <= Len(Top.entries[1])
    /\ LET entry == Top.entries[1][Top.i]
           fullPath == PathJoin(Top.dir, entry.name)
       IN  IF isDirectory(entry)
           THEN /\ stack' = Append(stack, Frame(fullPath))
                /\ io' = Some(Op("readdir", fullPath, <<>>))
           ELSE /\ io' = Some(Op("readFile", fullPath, <<>>))
                /\ UNCHANGED stack
    /\ UNCHANGED <<siteDir, tree, routes, out, pc, allMdx, content, written,
                   error, log, fsCalls, later, prev>>

\* An iteration that starts the read of a file and goes on to the next entry
\* without awaiting it (entries.map with Promise.all)
visitEntryFansOut ==
    /\ pc = "loadContent"
    /\ IsSome(Top.entries)
    /\ Top.i <= Len(Top.entries[1])
    /\ LET entry == Top.entries[1][Top.i]
           fullPath == PathJoin(Top.dir, entry.name)
       IN  IF isDirectory(entry)
           THEN /\ io = None
                /\ stack' = Append(stack, Frame(fullPath))
                /\ io' = Some(Op("readdir", fullPath, <<>>))
           ELSE IF Matches(entry, fullPath)
           THEN /\ io' = Some(Op("readFile", fullPath, <<>>))
                /\ stack' = SetTop([Top EXCEPT !.i = @ + 1])
           ELSE /\ stack' = SetTop([Top EXCEPT !.i = @ + 1])
                /\ UNCHANGED io
    /\ UNCHANGED <<siteDir, tree, routes, out, pc, allMdx, content, written,
                   error, log, fsCalls, later, prev>>

\* One iteration of the for loop of getMdxFiles, up to its await.
visitEntry ==
    /\ pc = "loadContent"
    /\ io = None
    /\ IsSome(Top.entries)
    /\ Top.i <= Len(Top.entries[1])
    /\ LET entry == Top.entries[1][Top.i]
           fullPath == PathJoin(Top.dir, entry.name)
       IN  IF isDirectory(entry)
           THEN /\ stack' = Append(stack, Frame(fullPath))
                /\ io' = Some(Op("readdir", fullPath, <<>>))
           ELSE IF Matches(entry, fullPath)
           THEN /\ io' = Some(Op("readFile", fullPath, <<>>))
                /\ UNCHANGED stack
           ELSE /\ stack' = SetTop([Top EXCEPT !.i = @ + 1])
                /\ UNCHANGED io
    /\ UNCHANGED <<siteDir, tree, routes, out, pc, allMdx, content, written,
                   error, log, fsCalls, later, prev>>

\* A readFile whose text is put in front of allMdx (unshift for push)
readFileResolvesUnshifts ==
    /\ pc = "loadContent"
    /\ IsSome(io) /\ io[1].op = "readFile"
    /\ LET node == Follow(io[1].path)
       IN  /\ IsSome(node) /\ node[1].kind = "file"
           /\ allMdx' = << node[1].content >> \o allMdx
    /\ stack' = SetTop([Top EXCEPT !.i = @ + 1])
    /\ io' = None
    /\ fsCalls' = Append(fsCalls, Call("readFile", io[1].path, TRUE))
    /\ UNCHANGED <<siteDir, tree, routes, out, pc, content, written, error, log,
                   later, prev>>

\* A readFile whose text is pushed only if allMdx does not hold it yet
readFileResolvesDedups ==
    /\ pc = "loadContent"
    /\ IsSome(io) /\ io[1].op = "readFile"
    /\ LET node == Follow(io[1].path)
       IN  /\ IsSome(node) /\ node[1].kind = "file"
           /\ allMdx' = IF \E i \in 1..Len(allMdx) : allMdx[i] = node[1].content
                         THEN allMdx
                         ELSE Append(allMdx, node[1].content)
    /\ stack' = SetTop([Top EXCEPT !.i = @ + 1])
    /\ io' = None
    /\ fsCalls' = Append(fsCalls, Call("readFile", io[1].path, TRUE))
    /\ UNCHANGED <<siteDir, tree, routes, out, pc, content, written, error, log,
                   later, prev>>

\* The awaited readFile resolves; its text is pushed onto allMdx.
readFileResolves ==
    /\ pc = "loadContent"
    /\ IsSome(io) /\ io[1].op = "readFile"
    /\ LET node == Follow(io[1].path)
       IN  /\ IsSome(node) /\ node[1].kind = "file"
           /\ allMdx' = Append(allMdx, node[1].content)
    /\ stack' = SetTop([Top EXCEPT !.i = @ + 1])
    /\ io' = None
    /\ fsCalls' = Append(fsCalls, Call("readFile", io[1].path, TRUE))
    /\ UNCHANGED <<siteDir, tree, routes, out, pc, content, written, error, log,
                   later, prev>>

\* A rejection that loadContent catches, resolving with what it has so far
readRejectsCaught ==
    /\ pc = "loadContent"
    /\ IsSome(io) /\ io[1].op \in {"readdir", "readFile"}
    /\ pc' = "loaded"
    /\ content' = Some([allMdx |-> allMdx])
    /\ stack' = <<>>
    /\ io' = None
    /\ fsCalls' = Append(fsCalls, Call(io[1].op, io[1].path, FALSE))
    /\ UNCHANGED <<siteDir, tree, routes, out, allMdx, written, error, log,
                   later, prev>>

\* A rejection where an unreadable file is skipped and the walk goes on
readRejectsSkipsFile ==
    /\ pc = "loadContent"
    /\ IsSome(io) /\ io[1].op \in {"readdir", "readFile"}
    /\ IF io[1].op = "readFile"
       THEN /\ stack' = SetTop([Top EXCEPT !.i = @ + 1])
            /\ UNCHANGED <<pc, error>>
       ELSE /\ pc' = "failed"
            /\ error' = Some("FilesystemError")
            /\ stack' = <<>>
    /\ io' = None
    /\ fsCalls' = Append(fsCalls, Call(io[1].op, io[1].path, FALSE))
    /\ UNCHANGED <<siteDir, tree, routes, out, allMdx, content, written, log,
                   later, prev>>

\* A readdir or readFile rejects (missing root, permissions, encoding): the
\* rejection propagates through every pending await out of loadContent.
readRejects ==
    /\ pc = "loadContent"
    /\ IsSome(io) /\ io[1].op \in {"readdir", "readFile"}
    /\ pc' = "failed"
    /\ error' = Some("FilesystemError")
    /\ stack' = <<>>
    /\ io' = None
    /\ fsCalls' = Append(fsCalls, Call(io[1].op, io[1].path, FALSE))
    /\ UNCHANGED <<siteDir, tree, routes, out, allMdx, content, written, log,
                   later, prev>>

\* A return that also ends the loop of the caller (return await in the loop)
getMdxFilesReturnsThrough ==
    /\ pc = "loadContent"
    /\ io = None
    /\ IsSome(Top.entries)
    /\ Top.i > Len(Top.entries[1])
    /\ IF Len(stack) > 1
       THEN /\ stack' = [ SubSeq(stack, 1, Len(stack) - 1)
                            EXCEPT ![Len(stack) - 1].i =
                                       Len(stack[Len(stack) - 1].entries[1]) + 1 ]
            /\ UNCHANGED <<pc, content>>
       ELSE /\ stack' = <<>>
            /\ content' = Some([allMdx |-> allMdx])
            /\ pc' = "loaded"
    /\ UNCHANGED <<siteDir, tree, routes, out, io, allMdx, written, error, log,
                   fsCalls, later, prev>>

\* The loop of the innermost getMdxFiles is over: it returns to the caller
\* awaiting it, and the outermost return resolves loadContent.
getMdxFilesReturns ==
    /\ pc = "loadContent"
    /\ io = None
    /\ IsSome(Top.entries)
    /\ Top.i > Len(Top.entries[1])
    /\ IF Len(stack) > 1
       THEN /\ stack' = [ SubSeq(stack, 1, Len(stack) - 1)
                            EXCEPT ![Len(stack) - 1].i = @ + 1 ]
            /\ UNCHANGED <<pc, content>>
       ELSE /\ stack' = <<>>
            /\ content' = Some([allMdx |-> allMdx])
            /\ pc' = "loaded"
    /\ UNCHANGED <<siteDir, tree, routes, out, io, allMdx, written, error, log,
                   fsCalls, later, prev>>

\* ------------------------------------------------------- route table ----
\* One entry of version.docs: key and record {title, description}; the
\* description may be undefined.
DocEntry(p, t, d) == [path |-> p, title |-> t, description |-> d]
DocEntries ==
    { DocEntry(<<"/","i">>, <<"I","n">>, Some(<<"g","o">>)),
      DocEntry(<<"/","f">>, <<"F","q">>, None),
      DocEntry(<<"/","z">>, <<"Z">>, Some(<<"z","z">>)) }

\* version.docs in the iteration order of Object.entries, keys distinct.
RECURSIVE DocsMapsOfLen(_)
DocsMapsOfLen(n) ==
    IF n = 0 THEN { <<>> }
    ELSE { Append(m, e) : m \in DocsMapsOfLen(n - 1), e \in DocEntries }
DocsMaps ==
    { m \in UNION { DocsMapsOfLen(n) : n \in 0..MaxDocs } :
        \A i, j \in 1..Len(m) : m[i].path = m[j].path => i = j }

Version(d) == [docs |-> d]
Props(v) == [version |-> v]
Route(p, pr) == [path |-> p, props |-> pr]
PluginRoute(n, rs) == [plugin |-> [name |-> n], routes |-> rs]

ForeignDocs == << DocEntry(<<"/","o">>, <<"O","f","f">>, Some(<<"n","o">>)) >>
ForeignProps == Some(Props(Some(Version(Some(ForeignDocs)))))

VersionShapes ==
    { None, Some(Version(None)) } \cup { Some(Version(Some(m))) : m \in DocsMaps }
PropsShapes == { None } \cup { Some(Props(v)) : v \in VersionShapes }
SubRouteShapes ==
    { None, Some(<<>>), Some(<< Route("/x", ForeignProps) >>) }
    \cup { Some(<< Route("/", p) >>) : p \in PropsShapes }
    \cup { Some(<< Route("/x", ForeignProps), Route("/", p) >>) : p \in PropsShapes }
    \cup { Some(<< Route("/", p), Route("/", ForeignProps) >>) : p \in PropsShapes }
PagesRoute == PluginRoute("docusaurus-plugin-content-pages",
                          Some(<< Route("/", ForeignProps) >>))
\* A route of another plugin with, among its sub-routes, a node that names
\* the docs plugin and has a "/" sub-route with docs of its own
NestedDocsRoute ==
    PluginRoute("docusaurus-plugin-content-pages",
                Some(<< [path |-> "/d", props |-> None,
                         plugin |-> [name |-> DOCS_PLUGIN],
                         routes |-> Some(<< Route("/", ForeignProps) >>)] >>))
RouteTables ==
    { <<>>, << PagesRoute >>, << NestedDocsRoute >> }
    \cup { << PluginRoute(DOCS_PLUGIN, s) >> : s \in SubRouteShapes }
    \cup { << PagesRoute, PluginRoute(DOCS_PLUGIN, s) >> : s \in SubRouteShapes }
    \cup { << PluginRoute(DOCS_PLUGIN, s),
              PluginRoute(DOCS_PLUGIN, Some(<< Route("/", ForeignProps) >>)) >> :
             s \in SubRouteShapes }

\* ---------------------------------------------------------- postBuild ----
\* arr[0]
First(arr) == IF arr = <<>> THEN None ELSE Some(arr[1])

\* `${value}`
TemplateStr(o) ==
    IF o = None THEN <<"u","n","d","e","f","i","n","e","d">> ELSE o[1]

IsDocsPluginRoute(route) == route.plugin.name = DOCS_PLUGIN
IsRootRoute(route) == route.path = "/"

\* The last route of the docs plugin for the first
docsPluginRouteConfigLast(rs) ==
    LET found == SelectSeq(rs, IsDocsPluginRoute)
    IN  IF found = <<>> THEN None ELSE Some(found[Len(found)])

\* routes.filter(...)[0], filter being SelectSeq
docsPluginRouteConfig(rs) == First(SelectSeq(rs, IsDocsPluginRoute))

\* The first sub-route, whatever its path
allDocsRouteConfigAnyPath(cfg) ==
    IF cfg.routes = None THEN None ELSE First(cfg.routes[1])

\* docsPluginRouteConfig.routes?.filter(...)[0]
allDocsRouteConfig(cfg) ==
    IF cfg.routes = None THEN None ELSE First(SelectSeq(cfg.routes[1], IsRootRoute))

\* allDocsRouteConfig?.props?.version
versionOf(cfg) ==
    IF cfg = None THEN None
    ELSE IF cfg[1].props = None THEN None
    ELSE cfg[1].props[1].version

docsRecord(e) ==
    <<"-"," ","[">> \o e.title \o <<"]","(">> \o e.path \o <<")",":"," ">>
        \o TemplateStr(e.description)

\* The records in reverse order
docsRecordsReversed(docs) ==
    [i \in 1..Len(docs) |-> docsRecord(docs[Len(docs) + 1 - i])]

docsRecords(docs) == [i \in 1..Len(docs) |-> docsRecord(docs[i])]

\* The index with every record terminated by a newline
llmsTxtTerminated(docs) ==
    <<"#"," ">> \o siteTitle \o <<"\n","\n","#","#"," ","D","o","c","s","\n","\n">>
        \o JoinTerminated(docsRecords(docs), <<"\n">>)

llmsTxt(docs) ==
    <<"#"," ">> \o siteTitle \o <<"\n","\n","#","#"," ","D","o","c","s","\n","\n">>
        \o Join(docsRecords(docs), <<"\n">>)

\* A throw that takes llms-full.txt back before postBuild rejects
ThrowsRollsBack(e) ==
    /\ pc' = "failed" /\ error' = Some(e)
    /\ out' = [out EXCEPT ![LLMS_FULL] = None]
    /\ written' = <<>>
    /\ UNCHANGED <<log, io, fsCalls>>

\* How the synchronous part of postBuild ends
Throws(e) ==
    /\ pc' = "failed" /\ error' = Some(e)
    /\ UNCHANGED <<out, written, log, io, fsCalls>>
Returns ==
    /\ pc' = "done"
    /\ UNCHANGED <<out, written, error, log, io, fsCalls>>
\* A writeFileSync whose catch block does not rethrow
writeFileSyncSwallows(data) ==
    \/ /\ out' = [out EXCEPT ![LLMS_TXT] = Some(data)]
       /\ written' = Append(written, LLMS_TXT)
       /\ fsCalls' = Append(fsCalls, Call("writeFileSync", LLMS_TXT, TRUE))
       /\ pc' = "done"
       /\ UNCHANGED <<error, log, io>>
    \/ /\ pc' = "done"
       /\ fsCalls' = Append(fsCalls, Call("writeFileSync", LLMS_TXT, FALSE))
       /\ UNCHANGED <<out, written, error, log, io>>

\* An asynchronous write of llms.txt that postBuild does not await
writeFileNotAwaited(data) ==
    /\ io' = Some(Op("writeFile", LLMS_TXT, data))
    /\ pc' = "done"
    /\ UNCHANGED <<out, written, error, log, fsCalls>>

\* fs.writeFileSync(llmsTxtPath, data), rethrowing what it throws
writeFileSync(data) ==
    \/ /\ out' = [out EXCEPT ![LLMS_TXT] = Some(data)]
       /\ written' = Append(written, LLMS_TXT)
       /\ fsCalls' = Append(fsCalls, Call("writeFileSync", LLMS_TXT, TRUE))
       /\ pc' = "done"
       /\ UNCHANGED <<error, log, io>>
    \/ /\ pc' = "failed" /\ error' = Some("WriteError")
       /\ fsCalls' = Append(fsCalls, Call("writeFileSync", LLMS_TXT, FALSE))
       /\ UNCHANGED <<out, written, log, io>>

\* A postBuild that looks for the docs plugin route before it writes
postBuildChecksFirst ==
    /\ pc = "loaded"
    /\ IF SelectSeq(routes, LAMBDA r : r.plugin.name = DOCS_PLUGIN) = <<>>
       THEN /\ pc' = "failed" /\ error' = Some("TypeError")
            /\ UNCHANGED io
       ELSE /\ pc' = "postBuild"
            /\ io' = Some(Op("writeFile", LLMS_FULL,
                             Join(content[1].allMdx, SEPARATOR)))
            /\ UNCHANGED error
    /\ UNCHANGED <<siteDir, tree, routes, out, stack, allMdx, content, written,
                   log, fsCalls, later, prev>>

\* The framework calls postBuild; it starts writing llms-full.txt.
postBuild ==
    /\ pc = "loaded"
    /\ pc' = "postBuild"
    /\ io' = Some(Op("writeFile", LLMS_FULL, Join(content[1].allMdx, SEPARATOR)))
    /\ UNCHANGED <<siteDir, tree, routes, out, stack, allMdx, content, written,
                   error, log, fsCalls, later, prev>>

\* A writeFile that appends to what the file holds (flag "a")
writeFileResolvesAppends ==
    /\ pc = "postBuild"
    /\ IsSome(io) /\ io[1].op = "writeFile"
    /\ out' = [out EXCEPT ![io[1].path] =
                  IF @ = None THEN Some(io[1].data) ELSE Some(@[1] \o io[1].data)]
    /\ written' = Append(written, io[1].path)
    /\ io' = None
    /\ pc' = "postBuildRoutes"
    /\ fsCalls' = Append(fsCalls, Call("writeFile", io[1].path, TRUE))
    /\ UNCHANGED <<siteDir, tree, routes, stack, allMdx, content, error, log,
                   later, prev>>

\* The awaited writeFile resolves: the file holds exactly the data.
writeFileResolves ==
    /\ pc = "postBuild"
    /\ IsSome(io) /\ io[1].op = "writeFile"
    /\ out' = [out EXCEPT ![io[1].path] = Some(io[1].data)]
    /\ written' = Append(written, io[1].path)
    /\ io' = None
    /\ pc' = "postBuildRoutes"
    /\ fsCalls' = Append(fsCalls, Call("writeFile", io[1].path, TRUE))
    /\ UNCHANGED <<siteDir, tree, routes, stack, allMdx, content, error, log,
                   later, prev>>

\* The awaited writeFile rejects (outDir not writable): postBuild rejects.
writeFileRejects ==
    /\ pc = "postBuild"
    /\ IsSome(io) /\ io[1].op = "writeFile"
    /\ io' = None
    /\ pc' = "failed"
    /\ error' = Some("WriteError")
    /\ fsCalls' = Append(fsCalls, Call("writeFile", io[1].path, FALSE))
    /\ UNCHANGED <<siteDir, tree, routes, out, stack, allMdx, content, written,
                   log, later, prev>>

\* How the rest of postBuild runs once llms-full.txt is written, given what
\* it does without a version (NoVersion) and without docs (NoDocs).
PostBuildRest(NoVersion, NoDocs) ==
    /\ pc = "postBuildRoutes"
    /\ LET plug == docsPluginRouteConfig(routes)
       IN  IF plug = None
           THEN Throws("TypeError")
           ELSE LET version == versionOf(allDocsRouteConfig(plug[1]))
                IN  IF version = None THEN NoVersion
                    ELSE IF version[1].docs = None THEN NoDocs
                    ELSE writeFileSync(llmsTxt(version[1].docs[1]))
    /\ UNCHANGED <<siteDir, tree, routes, stack, allMdx, content, later, prev>>

\* A rest that writes the bare header when there is no version
postBuildRoutesHeaderOnly ==
    PostBuildRest(writeFileSync(llmsTxt(<<>>)), Throws("TypeError"))

\* A rest that takes missing docs for an empty mapping
postBuildRoutesEmptyDocs ==
    PostBuildRest(Returns, writeFileSync(llmsTxt(<<>>)))

\* A rest that prints a warning before it returns early
postBuildRoutesWarns ==
    PostBuildRest(/\ pc' = "done"
                  /\ log' = Append(log, [level |-> "warn"])
                  /\ UNCHANGED <<out, written, error, io, fsCalls>>,
                  Throws("TypeError"))

\* A rest that returns without writing when version.docs has no entries
postBuildRoutesSkipsEmpty ==
    /\ pc = "postBuildRoutes"
    /\ LET plug == docsPluginRouteConfig(routes)
       IN  IF plug = None
           THEN Throws("TypeError")
           ELSE LET version == versionOf(allDocsRouteConfig(plug[1]))
                IN  IF version = None THEN Returns
                    ELSE IF version[1].docs = None THEN Throws("TypeError")
                    ELSE IF version[1].docs[1] = <<>> THEN Returns
                    ELSE writeFileSync(llmsTxt(version[1].docs[1]))
    /\ UNCHANGED <<siteDir, tree, routes, stack, allMdx, content, later, prev>>

\* A rest that empties the route table once it has taken the docs out of it
postBuildRoutesConsumes ==
    /\ pc = "postBuildRoutes"
    /\ LET plug == docsPluginRouteConfig(routes)
       IN  IF plug = None
           THEN Throws("TypeError") /\ UNCHANGED routes
           ELSE LET version == versionOf(allDocsRouteConfig(plug[1]))
                IN  IF version = None THEN Returns /\ UNCHANGED routes
                    ELSE IF version[1].docs = None
                    THEN Throws("TypeError") /\ UNCHANGED routes
                    ELSE /\ writeFileSync(llmsTxt(version[1].docs[1]))
                         /\ routes' = <<>>
    /\ UNCHANGED <<siteDir, tree, stack, allMdx, content, later, prev>>

\* The synchronous rest of postBuild: dig the docs out of the route table and
\* write llms.txt.  Without a docs plugin route, reading its routes throws;
\* without a version it returns; without docs, Object.entries throws.
postBuildRoutes == PostBuildRest(Returns, Throws("TypeError"))

\* The site is built again, into the same outDir: the framework creates the
\* plugin anew and calls its hooks from the start.
Input(t, rs) == [tree |-> t, routes |-> rs]
nextBuild ==
    /\ pc \in {"done", "failed"}
    /\ later # <<>>
    /\ prev' = Some([tree |-> tree, routes |-> routes, content |-> content,
                     out |-> out, pc |-> pc,
                     allDone |-> pc = "done" /\ (prev = None \/ prev[1].allDone)])
    /\ tree' = later[1].tree
    /\ routes' = later[1].routes
    /\ later' = Tail(later)
    /\ pc' = "start"
    /\ stack' = <<>>
    /\ io' = None
    /\ content' = None
    /\ written' = <<>>
    /\ error' = None
    /\ fsCalls' = <<>>
    /\ UNCHANGED <<siteDir, out, allMdx, log>>

\* ------------------------------------------------------ specification ----
SiteDirs == { <<"/","s">> }
Stale == <<"o","l","d">>
OutDirs ==
    { [f \in {LLMS_FULL, LLMS_TXT} |-> None],
      [f \in {LLMS_FULL, LLMS_TXT} |-> Some(Stale)] }

\* Trees for the builds whose route table varies: no, one, two and three
\* collected documents.
EmitTrees ==
    { <<>>,
      << File(FileNameA, Hi) >>,
      << Dir(NITROLITE, << File(FileNameA, Hi) >>) >>,
      << Dir(NITROLITE, << File(FileNameB, Yo), File(FileNameA, Hi) >>) >>,
      << Dir(NITROLITE, << File(FileNameA, Hi), File(FileNameT, Yo),
                           File(FileNameC, Hi), File(FileNameB, Yo) >>) >> }

InitBuild ==
    /\ siteDir \in SiteDirs
    /\ pc = "start"
    /\ stack = <<>>
    /\ io = None
    /\ allMdx = <<>>
    /\ content = None
    /\ written = <<>>
    /\ error = None
    /\ log = <<>>
    /\ fsCalls = <<>>
    /\ prev = None

\* At most one further build, of an empty site
OneMore == { <<>>, << Input(<<>>, <<>>) >> }

Init ==
    /\ InitBuild
    /\ tree \in EmitTrees
    /\ routes \in RouteTables
    /\ out \in OutDirs
    /\ later \in OneMore

Next ==
    \/ loadContent
    \/ readdirResolves
    \/ visitEntry
    \/ readFileResolves
    \/ readRejects
    \/ getMdxFilesReturns
    \/ postBuild
    \/ writeFileResolves
    \/ writeFileRejects
    \/ postBuildRoutes
    \/ nextBuild

Spec == Init /\ [][Next]_vars

\* Builds over every tree of at most MaxNodes entries, with one well-formed
\* route table.
CollectRoutes ==
    << PluginRoute(DOCS_PLUGIN,
         Some(<< Route("/", Some(Props(Some(Version(Some(ForeignDocs)))))) >>)) >>

InitCollect ==
    /\ InitBuild
    /\ tree \in Trees
    /\ routes = CollectRoutes
    /\ out \in OutDirs
    /\ later \in OneMore

SpecCollect == InitCollect /\ [][Next]_vars

\* Builds over the same trees put below a directory named nitrolite, so that
\* documents at every depth are collected.
WalkTrees == { << Dir(NITROLITE, es) >> : es \in Trees }

InitWalk ==
    /\ InitBuild
    /\ tree \in WalkTrees
    /\ routes = CollectRoutes
    /\ out = [f \in {LLMS_FULL, LLMS_TXT} |-> None]
    /\ later \in OneMore

SpecWalk == InitWalk /\ [][Next]_vars

\* Up to MaxBuilds builds in a row into an outDir that starts empty; from
\* build to build the tree and the route table change or stay.
RebuildTrees ==
    { << Dir(NITROLITE, << File(FileNameA, Hi) >>) >>,
      << Dir(NITROLITE, << File(FileNameB, Yo), File(FileNameA, Hi) >>) >> }
RebuildRoutes ==
    { <<>>, << PluginRoute(DOCS_PLUGIN, Some(<< Route("/", None) >>)) >> }
    \cup { << PluginRoute(DOCS_PLUGIN,
                Some(<< Route("/", Some(Props(Some(Version(Some(<< e >>)))))) >>)) >> :
             e \in { d \in DocEntries : d.description # None } }
RebuildInputs == { Input(t, rs) : t \in RebuildTrees, rs \in RebuildRoutes }

RECURSIVE InputsOfLen(_)
InputsOfLen(n) ==
    IF n = 0 THEN { <<>> }
    ELSE { Append(q, x) : q \in InputsOfLen(n - 1), x \in RebuildInputs }

InitRebuild ==
    /\ InitBuild
    /\ tree \in RebuildTrees
    /\ routes \in RebuildRoutes
    /\ out = [f \in {LLMS_FULL, LLMS_TXT} |-> None]
    /\ later \in UNION { InputsOfLen(n) : n \in 0..(MaxBuilds - 1) }

SpecRebuild == InitRebuild /\ [][Next]_vars

\* Builds over trees with a symbolic link in them: in a directory below
\* nitrolite, before or after its other entries, a link to the directory
\* above (a cycle) or to a file beside it (there or not).
LinkNameL == <<"l",".","m","d">>
LinkNameK == <<"k">>
Links ==
    { Link(LinkNameL, PARENT), Link(LinkNameK, PARENT), Link(LinkNameL, FileNameA) }
LinkTrees ==
    { << Dir(NITROLITE,
             << Dir(DirNameG, IF k = 0 THEN <<l>> \o es ELSE es \o <<l>>) >>) >> :
        l \in Links, k \in 0..1,
        es \in { t \in UNION { Forests(n) : n \in 0..(MaxNodes - 1) } : WellFormed(t) } }

InitLinks ==
    /\ InitBuild
    /\ tree \in LinkTrees
    /\ routes = CollectRoutes
    /\ out = [f \in {LLMS_FULL, LLMS_TXT} |-> None]
    /\ later \in OneMore

\* What the event loop does for loadContent: a settled listing or read is
\* delivered and the code runs on to its next await.
CollectStep ==
    \/ readRejects
    \/ visitEntry
    \/ getMdxFilesReturns
    \/ readdirResolves
    \/ readFileResolves

SpecLinks == InitLinks /\ [][Next]_vars /\ WF_vars(CollectStep)

\* Builds that try the test of line 57 on names in every position: a site
\* directory with and without "nitrolite" in its path, files and
\* directories named with it, in another case, and with the extensions in
\* upper case; every file holds a text of its own.
FilterSiteDirs == { <<"/","s">>, <<"/">> \o NITROLITE }
NamedDoc == File(NITROLITE \o EXT_MD, <<"1">>)
CasedDoc == File(<<"N">> \o Tail(NITROLITE) \o EXT_MD, <<"2">>)
UpperDoc == File(<<"a",".","M","D">>, <<"3">>)
PlainDoc == File(FileNameA, <<"4">>)
MdxDoc == File(FileNameB, <<"5">>)
NamedText == File(NITROLITE \o <<".","t","x","t">>, <<"6">>)
DirNameSub == <<"x">> \o NITROLITE \o <<"s">>
DirNameUpper == <<"N","I","T","R","O","L","I","T","E">>
DirNameDoc == <<"d",".","m","d">>
FilterTrees ==
    { << Dir(DirNameG, << NamedDoc, CasedDoc, PlainDoc >>), UpperDoc >>,
      << Dir(DirNameSub, << Dir(DirNameG, << PlainDoc, MdxDoc, NamedText >>) >>),
         PlainDoc >>,
      << Dir(DirNameDoc, << PlainDoc, NamedDoc >>), Dir(DirNameUpper, << MdxDoc >>) >>,
      << Dir(DirNameG, << Dir(NITROLITE, << PlainDoc >>) >>),
         Dir(NITROLITE \o EXT_MD, << UpperDoc, MdxDoc >>) >> }

InitFilter ==
    /\ siteDir \in FilterSiteDirs
    /\ tree \in FilterTrees
    /\ routes = CollectRoutes
    /\ out = [f \in {LLMS_FULL, LLMS_TXT} |-> None]
    /\ later \in OneMore
    /\ pc = "start"
    /\ stack = <<>>
    /\ io = None
    /\ allMdx = <<>>
    /\ content = None
    /\ written = <<>>
    /\ error = None
    /\ log = <<>>
    /\ fsCalls = <<>>
    /\ prev = None

SpecFilter == InitFilter /\ [][Next]_vars

\* ------------------------------------------------------------ claims ----
\* Every file below a listing, with its full path.
RECURSIVE FilesBelow(_, _)
FilesBelow(es, dir) ==
    UNION { IF es[i].kind = "dir"
            THEN FilesBelow(es[i].entries, dir \o <<"/">> \o es[i].name)
            ELSE { [path |-> dir \o <<"/">> \o es[i].name,
                    name |-> es[i].name, content |-> es[i].content] } :
            i \in 1..Len(es) }

SiteFiles == FilesBelow(tree, siteDir \o <<"/">> \o DOCS)
IsDocFile(f) == EndsWith(f.name, EXT_MD) \/ EndsWith(f.name, EXT_MDX)
IsNitroliteDoc(f) == IsDocFile(f) /\ Includes(f.path, NITROLITE)
Occurrences(seq, x) == Cardinality({ i \in 1..Len(seq) : seq[i] = x })
Collected == content[1].allMdx
Wrote(f) == \E i \in 1..Len(written) : written[i] = f

\* postBuild was called and is over, and no write was refused
EmitOver ==
    /\ content # None
    /\ pc \in {"done", "failed"}
    /\ error # Some("WriteError")

\* C1: what loadContent resolves with holds, for every text, as many copies
\* of it as there are files named *.md or *.mdx with "nitrolite" in their
\* full path that hold this text: each such file contributes its content
\* verbatim and no other file contributes.
C1_CollectExact ==
    content # None =>
        \A c \in { f.content : f \in SiteFiles } \cup
                 { Collected[i] : i \in 1..Len(Collected) } :
            Occurrences(Collected, c) =
                Cardinality({ f \in SiteFiles : IsNitroliteDoc(f) /\ f.content = c })

\* C1 witness: a collection that took a document and left out another file
\* of the same directory tree.
C1_Witness ==
    /\ content # None
    /\ Len(Collected) >= 1
    /\ \E f \in SiteFiles : ~IsNitroliteDoc(f)

\* C2: after a successful build, the content of every .md/.mdx file under the
\* content root appears in llms-full.txt.
C2_AllDocsInFull ==
    pc = "done" =>
        /\ out[LLMS_FULL] # None
        /\ \A f \in SiteFiles : IsDocFile(f) => Includes(out[LLMS_FULL][1], f.content)

\* The length the first i documents and their separators take up
RECURSIVE Offset(_, _)
Offset(docs, i) ==
    IF i = 0 THEN 0 ELSE Offset(docs, i - 1) + Len(docs[i]) + Len(SEPARATOR)

\* text is the documents in order, a separator between each two neighbours
\* and nothing else
IsSeparated(text, docs) ==
    /\ Len(text) = IF docs = <<>> THEN 0 ELSE Offset(docs, Len(docs)) - Len(SEPARATOR)
    /\ \A i \in 1..Len(docs) :
          /\ SubSeq(text, Offset(docs, i - 1) + 1,
                          Offset(docs, i - 1) + Len(docs[i])) = docs[i]
          /\ i < Len(docs) =>
                SubSeq(text, Offset(docs, i - 1) + Len(docs[i]) + 1,
                             Offset(docs, i)) = SEPARATOR

\* C3: once postBuild has written llms-full.txt, the file is the collected
\* documents of this build in order, separated by "\n\n---\n\n": n documents
\* and n-1 separators, none leading or trailing, no document altered.
C3_RoundTrip ==
    Wrote(LLMS_FULL) =>
        /\ out[LLMS_FULL] # None
        /\ IsSeparated(out[LLMS_FULL][1], Collected)

\* C3 witness: a finished build of two or more documents into an output
\* directory that held stale files (llms.txt, skipped, is still the old one).
C3_Witness ==
    /\ pc = "done"
    /\ Wrote(LLMS_FULL)
    /\ Len(Collected) >= 2
    /\ out[LLMS_TXT] = Some(Stale)

\* C4: when loadContent succeeded and no write was refused, a finished
\* postBuild has written llms-full.txt, whatever the route table looks like.
C4_FullAlwaysWritten ==
    EmitOver => Wrote(LLMS_FULL) /\ out[LLMS_FULL] # None

\* C4 witness: postBuild is over for a route table without the docs plugin,
\* and llms-full.txt is there.
C4_Witness ==
    /\ EmitOver
    /\ \A i \in 1..Len(routes) : routes[i].plugin.name # DOCS_PLUGIN
    /\ written = << LLMS_FULL >>

\* C5: with no route of the docs plugin in the route table, postBuild ends
\* without an error, llms-full.txt written.
C5_NoDocsNodeNonFatal ==
    (EmitOver /\ \A i \in 1..Len(routes) : routes[i].plugin.name # DOCS_PLUGIN)
        => pc = "done" /\ error = None /\ Wrote(LLMS_FULL)

\* The first route of the docs plugin, and its first sub-route at "/"
HasDocsNode == \E i \in 1..Len(routes) : routes[i].plugin.name = DOCS_PLUGIN
DocsNode ==
    routes[CHOOSE i \in 1..Len(routes) :
              /\ routes[i].plugin.name = DOCS_PLUGIN
              /\ \A j \in 1..(i - 1) : routes[j].plugin.name # DOCS_PLUGIN]
HasRootRoute ==
    /\ HasDocsNode
    /\ DocsNode.routes # None
    /\ \E i \in 1..Len(DocsNode.routes[1]) : DocsNode.routes[1][i].path = "/"
RootRoute ==
    LET rs == DocsNode.routes[1]
    IN  rs[CHOOSE i \in 1..Len(rs) :
              rs[i].path = "/" /\ \A j \in 1..(i - 1) : rs[j].path # "/"]
HasVersion ==
    /\ HasRootRoute
    /\ RootRoute.props # None
    /\ RootRoute.props[1].version # None
HasDocs == HasVersion /\ RootRoute.props[1].version[1].docs # None
VersionDocs == RootRoute.props[1].version[1].docs[1]

\* C6: with a docs plugin route that has no sub-route at "/", or whose "/"
\* sub-route has no props.version, postBuild returns without an error, does
\* not write llms.txt, and has written llms-full.txt.
C6_SilentSkip ==
    (EmitOver /\ HasDocsNode /\ ~HasVersion) =>
        /\ pc = "done" /\ error = None
        /\ ~Wrote(LLMS_TXT)
        /\ Wrote(LLMS_FULL)

\* C6 witness: a finished postBuild for a "/" sub-route without props.
C6_Witness ==
    /\ EmitOver /\ pc = "done"
    /\ HasRootRoute /\ RootRoute.props = None
    /\ written = << LLMS_FULL >>
    /\ out[LLMS_TXT] = None

Header == <<"#"," ">> \o siteTitle \o <<"\n","\n","#","#"," ","D","o","c","s","\n","\n">>

SkippedIndex == content # None /\ pc = "done" /\ ~Wrote(LLMS_TXT)

Plus(a, v) == a \o (IF v = None THEN <<"u","n","d","e","f","i","n","e","d">> ELSE v[1])

Bullet(e) ==
    Plus(<<"-"," ","[">> \o e.title \o <<"]","(">> \o e.path \o <<")",":"," ">>,
         e.description)

\* The lines one after the other, a newline between each two neighbours
RECURSIVE Lines(_, _)
Lines(docs, n) ==
    IF n = 0 THEN <<>>
    ELSE IF n = 1 THEN Bullet(docs[1])
    ELSE Lines(docs, n - 1) \o <<"\n">> \o Bullet(docs[n])

\* C9: with version.docs present, a written llms.txt is "# " + title +
\* "\n\n## Docs\n\n" and then the bullets "- [title](path): description" of
\* the entries, a single "\n" between them and none at the end.
C9_IndexFormat ==
    (Wrote(LLMS_TXT) /\ HasDocs) =>
        out[LLMS_TXT] = Some(Header \o Lines(VersionDocs, Len(VersionDocs)))

\* C9 witness: an index of two entries, one without a description.
C9_Witness ==
    /\ Wrote(LLMS_TXT) /\ HasDocs
    /\ Len(VersionDocs) = 2
    /\ \E i \in 1..2 : VersionDocs[i].description = None

\* The lines of llms.txt after the header
IndexLines ==
    LET txt == out[LLMS_TXT][1]
        body == SubSeq(txt, Len(Header) + 1, Len(txt))
    IN  IF body = <<>> THEN <<>> ELSE Split(body, "\n")

\* C10: with version.docs present, llms.txt has as many bullets as the
\* mapping has entries, and the i-th bullet is the one of the i-th entry.
C10_OneBulletPerEntry ==
    (Wrote(LLMS_TXT) /\ HasDocs) =>
        /\ StartsWith(out[LLMS_TXT][1], Header)
        /\ Len(IndexLines) = Len(VersionDocs)
        /\ \A i \in 1..Len(VersionDocs) :
              StartsWith(IndexLines[i],
                         <<"-"," ","[">> \o VersionDocs[i].title \o <<"]","(">>
                             \o VersionDocs[i].path \o <<")">>)

\* C10 witness: an index of two entries in the order of the mapping.
C10_Witness ==
    /\ Wrote(LLMS_TXT) /\ HasDocs
    /\ Len(VersionDocs) = 2
    /\ Len(IndexLines) = 2
    /\ VersionDocs[1].path = <<"/","z">>

\* C11: when nothing was collected, llms-full.txt is written as the empty
\* text; when version.docs is there without entries, llms.txt is written and
\* is the header "# " + title + "\n\n## Docs\n\n" and nothing more.
C11_EmptyInputs ==
    /\ (Wrote(LLMS_FULL) /\ Collected = <<>>) => out[LLMS_FULL] = Some(<<>>)
    /\ (EmitOver /\ HasDocs /\ VersionDocs = <<>>) =>
          /\ Wrote(LLMS_TXT)
          /\ out[LLMS_TXT] = Some(<<"#"," ">> \o siteTitle \o
                                  <<"\n","\n","#","#"," ","D","o","c","s","\n","\n">>)

\* C11 witness: a finished build of an empty content root whose version.docs
\* is empty.
C11_Witness ==
    /\ pc = "done"
    /\ tree = <<>> /\ Collected = <<>>
    /\ HasDocs /\ VersionDocs = <<>>
    /\ written = << LLMS_FULL, LLMS_TXT >>

\* Every file below a listing, with its full path and its place: the indices
\* of the listings on the way down to it.
RECURSIVE PlacedFiles(_, _, _)
PlacedFiles(es, dir, at) ==
    UNION { IF es[i].kind = "dir"
            THEN PlacedFiles(es[i].entries, dir \o <<"/">> \o es[i].name,
                             Append(at, i))
            ELSE { [path |-> dir \o <<"/">> \o es[i].name, name |-> es[i].name,
                    content |-> es[i].content, at |-> Append(at, i)] } :
            i \in 1..Len(es) }

PlacedDocs ==
    { f \in PlacedFiles(tree, siteDir \o <<"/">> \o DOCS, <<>>) : IsNitroliteDoc(f) }

\* Place a comes before place b in a depth-first walk
Before(a, b) ==
    \E k \in 1..(IF Len(a) < Len(b) THEN Len(a) ELSE Len(b)) :
        a[k] < b[k] /\ \A j \in 1..(k - 1) : a[j] = b[j]

\* C12: the collected sequence is in depth-first order: a document stands
\* after exactly the documents whose place comes before its own, entries
\* counted in listing order and a sub-directory's documents at the place of
\* the sub-directory among its siblings.
C12_DepthFirstOrder ==
    content # None =>
        /\ Len(Collected) = Cardinality(PlacedDocs)
        /\ \A f \in PlacedDocs :
              Collected[1 + Cardinality({ g \in PlacedDocs : Before(g.at, f.at) })]
                  = f.content

\* C12 witness: a document in a sub-directory collected before the document
\* of a later sibling of that sub-directory.
C12_Witness ==
    /\ content # None
    /\ \E f, g \in PlacedDocs :
          /\ Len(f.at) > Len(g.at)
          /\ Before(f.at, g.at)
          /\ f.content # g.content
          /\ Collected[1] = f.content /\ Collected[2] = g.content

\* C13: the collected sequence has one element per matching file: files at
\* different paths with the same content each give an element.
C13_NoDeduplication ==
    content # None =>
        /\ Len(Collected) = Cardinality({ f \in SiteFiles : IsNitroliteDoc(f) })
        /\ \A f, g \in SiteFiles :
              (IsNitroliteDoc(f) /\ IsNitroliteDoc(g) /\ f.path # g.path
                  /\ f.content = g.content)
              => Occurrences(Collected, f.content) >= 2

\* C13 witness: two documents of the same content, collected twice.
C13_Witness ==
    /\ content # None
    /\ Collected = << Hi, Hi >>
    /\ Cardinality({ f \in SiteFiles : IsNitroliteDoc(f) /\ f.content = Hi }) = 2

\* C14: when the listing of the content root fails, loadContent fails with
\* the error, postBuild is not called in this build and neither output file
\* is written.
C14_MissingRootFails ==
    (fsCalls # <<>> /\ fsCalls[1] = Call("readdir", siteDir \o <<"/">> \o DOCS, FALSE))
        => /\ pc = "failed"
           /\ error = Some("FilesystemError")
           /\ content = None
           /\ ~ENABLED postBuild
           /\ io = None
           /\ Len(fsCalls) = 1
           /\ written = <<>>

\* C14 witness: the build has failed on the listing of the content root.
C14_Witness ==
    /\ pc = "failed"
    /\ fsCalls = << Call("readdir", siteDir \o <<"/">> \o DOCS, FALSE) >>
    /\ tree # <<>>
    /\ out = [f \in {LLMS_FULL, LLMS_TXT} |-> None]

\* C15: a failed read of a matched file or listing of a directory is the last
\* thing loadContent does: it fails as a whole, resolves with nothing, also
\* not with the documents read so far, and postBuild gets nothing to write.
C15_NoPartialResult ==
    \A i \in 1..Len(fsCalls) :
        (fsCalls[i].op \in {"readdir", "readFile"} /\ ~fsCalls[i].ok)
            => /\ i = Len(fsCalls)
               /\ pc = "failed"
               /\ error = Some("FilesystemError")
               /\ content = None
               /\ stack = <<>>
               /\ written = <<>>

\* C15 witness: a read of a matched file failed after another document had
\* been read, below the content root.
C15_Witness ==
    /\ pc = "failed"
    /\ allMdx # <<>>
    /\ content = None
    /\ Len(fsCalls) > 2
    /\ fsCalls[Len(fsCalls)].op = "readFile"
    /\ ~fsCalls[Len(fsCalls)].ok

\* C16: a failed write is the last thing postBuild does and postBuild fails
\* with its error: after a failed write of llms-full.txt this build has
\* written no file, after a failed write of llms.txt it has written
\* llms-full.txt alone.
C16_WriteFailureFatal ==
    \A i \in 1..Len(fsCalls) :
        (fsCalls[i].op \in {"writeFile", "writeFileSync"} /\ ~fsCalls[i].ok)
            => /\ i = Len(fsCalls)
               /\ pc = "failed"
               /\ error = Some("WriteError")
               /\ fsCalls[i].path = LLMS_FULL => written = <<>>
               /\ fsCalls[i].path = LLMS_TXT => written = << LLMS_FULL >>

\* C16 witness: the write of llms.txt failed and postBuild failed with it.
C16_Witness ==
    /\ pc = "failed"
    /\ error = Some("WriteError")
    /\ HasDocs
    /\ fsCalls[Len(fsCalls)] = Call("writeFileSync", LLMS_TXT, FALSE)

\* The paths of the directories below a listing
RECURSIVE DirsBelow(_, _)
DirsBelow(es, dir) ==
    UNION { IF es[i].kind = "dir"
            THEN { dir \o <<"/">> \o es[i].name }
                 \cup DirsBelow(es[i].entries, dir \o <<"/">> \o es[i].name)
            ELSE {} :
            i \in 1..Len(es) }

SiteDirsAll ==
    { siteDir \o <<"/">> \o DOCS } \cup DirsBelow(tree, siteDir \o <<"/">> \o DOCS)

IsRead(c) == c.op \in {"readdir", "readFile"}
IsWrite(c) == c.op \in {"writeFile", "writeFileSync"}
Settled(o, p) ==
    \E i \in 1..Len(fsCalls) :
        fsCalls[i].op = o /\ fsCalls[i].ok /\ fsCalls[i].path = p

\* postBuild has been called in this build
EmitBegun ==
    \/ pc \in {"postBuild", "postBuildRoutes"}
    \/ \E i \in 1..Len(fsCalls) : IsWrite(fsCalls[i])

\* C17: once postBuild has begun, collection is over and complete: no
\* listing or read is pending or comes later, every directory has been
\* listed and every matching file read, and the corpus in hand is the whole
\* result of loadContent.
C17_CollectBeforeEmit ==
    EmitBegun =>
        /\ stack = <<>>
        /\ io # None => io[1].op = "writeFile"
        /\ \A i, j \in 1..Len(fsCalls) :
              (i < j /\ IsWrite(fsCalls[i])) => ~IsRead(fsCalls[j])
        /\ \A d \in SiteDirsAll : Settled("readdir", d)
        /\ \A f \in SiteFiles : IsNitroliteDoc(f) => Settled("readFile", f.path)
        /\ content # None
        /\ Len(Collected) = Cardinality({ f \in SiteFiles : IsNitroliteDoc(f) })
        /\ io # None => io[1].data = Join(Collected, SEPARATOR)

\* C17 witness: llms-full.txt is being written after a walk through a
\* sub-directory and two documents.
C17_Witness ==
    /\ pc = "postBuild"
    /\ io # None
    /\ Cardinality(SiteDirsAll) >= 3
    /\ Len(Collected) >= 2

\* C18: a loadContent over the tree the previous loadContent walked resolves
\* with the same sequence: nothing of the first call is left in the second.
C18_CollectIdempotent ==
    (content # None /\ prev # None /\ prev[1].content # None /\ prev[1].tree = tree)
        => content = prev[1].content

\* C18 witness: the second of two collections of two documents from the
\* same tree.
C18_Witness ==
    /\ prev # None
    /\ prev[1].tree = tree
    /\ prev[1].content # None
    /\ content # None
    /\ Len(Collected) = 2

\* This build ended well, and so did every build before it
AfterGoodBuilds == pc = "done" /\ prev # None /\ prev[1].allDone

\* C19 as claimed: after successful builds in a row into an outDir that was
\* empty at first, no file holds what an earlier build wrote: every file
\* there is was written by the last build.
C19_NothingSurvives ==
    AfterGoodBuilds =>
        \A f \in {LLMS_FULL, LLMS_TXT} : out[f] # None => Wrote(f)

\* C19 amended: after successful builds in a row, llms-full.txt is the
\* corpus of the last build and nothing else; llms.txt is the index of the
\* last build's version.docs when that build found one, and otherwise is
\* what the build before left, untouched.
C19_OverwriteUnlessSkipped ==
    AfterGoodBuilds =>
        /\ Wrote(LLMS_FULL)
        /\ out[LLMS_FULL] # None
        /\ IsSeparated(out[LLMS_FULL][1], Collected)
        /\ HasDocs => /\ Wrote(LLMS_TXT)
                      /\ out[LLMS_TXT] =
                            Some(Header \o Lines(VersionDocs, Len(VersionDocs)))
        /\ ~HasDocs => /\ ~Wrote(LLMS_TXT)
                       /\ out[LLMS_TXT] = prev[1].out[LLMS_TXT]

\* C19 witness: a second build with another corpus that skipped the index;
\* llms-full.txt is new, llms.txt is the one of the first build.
C19_Witness ==
    /\ AfterGoodBuilds
    /\ prev[1].out[LLMS_FULL] # None
    /\ out[LLMS_FULL] # prev[1].out[LLMS_FULL]
    /\ ~HasDocs
    /\ out[LLMS_TXT] # None
    /\ out[LLMS_TXT] = prev[1].out[LLMS_TXT]

\* C20: when postBuild has returned for a route table with version.docs, no
\* write is pending: both files have been written, llms-full.txt first, and
\* both writes have settled well.
C20_WritesSettledOnReturn ==
    (pc = "done" /\ HasDocs) =>
        /\ io = None
        /\ written = << LLMS_FULL, LLMS_TXT >>
        /\ Len(fsCalls) >= 2
        /\ fsCalls[Len(fsCalls) - 1] = Call("writeFile", LLMS_FULL, TRUE)
        /\ fsCalls[Len(fsCalls)] = Call("writeFileSync", LLMS_TXT, TRUE)
        /\ out[LLMS_FULL] # None /\ out[LLMS_FULL] # Some(Stale)
        /\ out[LLMS_TXT] # None /\ out[LLMS_TXT] # Some(Stale)

\* C20 witness: postBuild of a first build has returned, with documents
\* collected and entries in version.docs.
C20_Witness ==
    /\ pc = "done" /\ HasDocs
    /\ prev = None
    /\ Len(VersionDocs) >= 1
    /\ Len(Collected) >= 1
    /\ written = << LLMS_FULL, LLMS_TXT >>

\* The entries of version.docs that routes of other plugins and sub-routes
\* of the docs plugin at another path than "/" carry
OffPathDocs ==
    UNION { IF routes[i].routes = None THEN {}
            ELSE UNION { LET r == routes[i].routes[1][j]
                         IN  IF /\ routes[i].plugin.name = DOCS_PLUGIN
                                /\ r.path = "/"
                             THEN {}
                             ELSE IF r.props = None THEN {}
                             ELSE IF r.props[1].version = None THEN {}
                             ELSE IF r.props[1].version[1].docs = None THEN {}
                             ELSE LET d == r.props[1].version[1].docs[1]
                                  IN  { d[k] : k \in 1..Len(d) } :
                         j \in 1..Len(routes[i].routes[1]) } :
            i \in 1..Len(routes) }

\* The entries of version.docs that "/" sub-routes of docs plugin routes carry
RootPathDocs ==
    UNION { IF routes[i].routes = None \/ routes[i].plugin.name # DOCS_PLUGIN THEN {}
            ELSE UNION { LET r == routes[i].routes[1][j]
                         IN  IF r.path # "/" THEN {}
                             ELSE IF r.props = None THEN {}
                             ELSE IF r.props[1].version = None THEN {}
                             ELSE IF r.props[1].version[1].docs = None THEN {}
                             ELSE LET d == r.props[1].version[1].docs[1]
                                  IN  { d[k] : k \in 1..Len(d) } :
                         j \in 1..Len(routes[i].routes[1]) } :
            i \in 1..Len(routes) }

\* C21: every line of a written llms.txt is the bullet of an entry carried
\* by a "/" sub-route of a docs plugin route; what only routes of other
\* plugins or sub-routes at other paths carry (title, path, description) is
\* nowhere in the file.
C21_OnlyDocsRootRoute ==
    Wrote(LLMS_TXT) =>
        /\ StartsWith(out[LLMS_TXT][1], Header)
        /\ \A i \in 1..Len(IndexLines) :
              \E e \in RootPathDocs : IndexLines[i] = Bullet(e)
        /\ \A e \in OffPathDocs \ RootPathDocs :
              /\ ~Includes(out[LLMS_TXT][1], e.title)
              /\ ~Includes(out[LLMS_TXT][1], e.path)
              /\ e.description # None => ~Includes(out[LLMS_TXT][1], e.description[1])

\* C21 witness: an index written from a table whose first route is of the
\* pages plugin and whose docs plugin route has a sub-route at "/x" before
\* the one at "/", both carrying entries of their own.
C21_Witness ==
    /\ Wrote(LLMS_TXT)
    /\ Len(routes) = 2
    /\ routes[1].plugin.name # DOCS_PLUGIN
    /\ HasDocs
    /\ DocsNode.routes[1][1].path = "/x"
    /\ OffPathDocs # {}
    /\ Len(IndexLines) = 2

\* A step that touches no file and issues and settles nothing but reads
ReadOnlyStep ==
    /\ tree' = tree
    /\ siteDir' = siteDir
    /\ out' = out
    /\ written' = written
    /\ io' # None => io'[1].op \in {"readdir", "readFile"}
    /\ fsCalls' # fsCalls =>
          /\ Len(fsCalls') = Len(fsCalls) + 1
          /\ SubSeq(fsCalls', 1, Len(fsCalls)) = fsCalls
          /\ IsRead(fsCalls'[Len(fsCalls')])

\* C22: a step of loadContent, whether it goes on, resolves or rejects,
\* leaves the content tree and the output directory as they are; the only
\* calls it issues and settles are listings and file reads.
C22_CollectReadOnly ==
    [][(pc \in {"start", "loadContent"}) => ReadOnlyStep]_vars

\* C22 witness: a collection that failed after it had read a document, the
\* output files of an earlier build still in the output directory.
C22_Witness ==
    /\ pc = "failed"
    /\ error = Some("FilesystemError")
    /\ allMdx # <<>>
    /\ Len(fsCalls) >= 3
    /\ \A i \in 1..Len(fsCalls) : IsRead(fsCalls[i])
    /\ out = [f \in {LLMS_FULL, LLMS_TXT} |-> Some(Stale)]

\* A step that leaves the route table, the corpus and the content tree as
\* they are, and whose only effect on files is a write of llms-full.txt or
\* of llms.txt
EmitStep ==
    /\ routes' = routes
    /\ content' = content
    /\ allMdx' = allMdx
    /\ tree' = tree
    /\ siteDir' = siteDir
    /\ io' # None => io'[1].op = "writeFile" /\ io'[1].path = LLMS_FULL
    /\ fsCalls' # fsCalls =>
          /\ Len(fsCalls') = Len(fsCalls) + 1
          /\ SubSeq(fsCalls', 1, Len(fsCalls)) = fsCalls
          /\ IsWrite(fsCalls'[Len(fsCalls')])
          /\ fsCalls'[Len(fsCalls')].path \in {LLMS_FULL, LLMS_TXT}
    /\ \A f \in DOMAIN out :
          out'[f] # out[f] =>
              /\ f \in {LLMS_FULL, LLMS_TXT}
              /\ fsCalls' # fsCalls
              /\ fsCalls'[Len(fsCalls')].path = f
              /\ fsCalls'[Len(fsCalls')].ok
    /\ DOMAIN out' = DOMAIN out
    /\ Len(written') <= 2
    /\ \A i, j \in 1..Len(written') : written'[i] = written'[j] => i = j

\* C23: a step of postBuild leaves the route table, version.docs in it, and
\* the collected corpus as they were; what it does to the file system is a
\* write of llms-full.txt or of llms.txt, each at most once in a build.
C23_EmitFrame ==
    [][(pc \in {"loaded", "postBuild", "postBuildRoutes"}) => EmitStep]_vars

\* C23 witness: postBuild is over, both files written from three documents
\* and two entries of version.docs, which are still in the route table.
C23_Witness ==
    /\ pc = "done"
    /\ Len(fsCalls) >= 2
    /\ fsCalls[Len(fsCalls)].op = "writeFileSync"
    /\ written = << LLMS_FULL, LLMS_TXT >>
    /\ HasDocs /\ Len(VersionDocs) = 2
    /\ Len(Collected) = 3

\* The path of the j-th entry of the k-th activation of getMdxFiles
EntryPath(k, j) == stack[k].dir \o <<"/">> \o stack[k].entries[1][j].name
Called(p) == \E i \in 1..Len(fsCalls) : IsRead(fsCalls[i]) /\ fsCalls[i].path = p
Pending(o, p) == io # None /\ io[1].op = o /\ io[1].path = p

\* C24: while a listing, a read or a write is awaited the plugin takes no
\* step of its own, so no second operation is started; every activation of
\* getMdxFiles but the innermost waits at the directory entry the next
\* activation lists, the entries before the current one of an activation
\* are dealt with, and no entry after it has been touched.
C24_SequentialIO ==
    /\ io # None =>
          /\ ~ENABLED visitEntry
          /\ ~ENABLED getMdxFilesReturns
          /\ ~ENABLED loadContent
          /\ ~ENABLED postBuild
          /\ ~ENABLED postBuildRoutes
          /\ io[1].op = "writeFile" <=> pc = "postBuild"
          /\ io[1].op \in {"readdir", "readFile"} <=> pc = "loadContent"
    /\ pc = "loadContent" =>
          /\ \A k \in 1..(Len(stack) - 1) :
                /\ stack[k].entries # None
                /\ stack[k].i <= Len(stack[k].entries[1])
                /\ isDirectory(stack[k].entries[1][stack[k].i])
                /\ stack[k + 1].dir = EntryPath(k, stack[k].i)
          /\ Top.entries = None <=> Pending("readdir", Top.dir)
          /\ \A k \in 1..Len(stack) :
                stack[k].entries # None =>
                    \A j \in 1..Len(stack[k].entries[1]) :
                        LET e == stack[k].entries[1][j]
                        IN  /\ (j < stack[k].i
                                   /\ (isDirectory(e) \/ Matches(e, EntryPath(k, j))))
                                    => Called(EntryPath(k, j))
                            /\ j > stack[k].i =>
                                  /\ ~Called(EntryPath(k, j))
                                  /\ ~Pending("readFile", EntryPath(k, j))
                                  /\ ~Pending("readdir", EntryPath(k, j))
                            /\ Pending("readFile", EntryPath(k, j)) =>
                                  k = Len(stack) /\ j = stack[k].i

\* C24 witness: the read of a document two directories down is awaited,
\* with a further entry of the same directory still to come.
C24_Witness ==
    /\ pc = "loadContent"
    /\ Len(stack) = 3
    /\ io # None /\ io[1].op = "readFile"
    /\ Top.i < Len(Top.entries[1])

IsMatchedPath(p) == \E f \in SiteFiles : IsNitroliteDoc(f) /\ f.path = p

\* C25: the only files loadContent ever reads are those that pass the test
\* of extension and path, and the only directories it lists are those of
\* the tree; so when loadContent has failed, what failed is the read of a
\* matching file or the listing of a directory, and a collection that went
\* through has touched no file that does not match.
C25_TolerantFilter ==
    /\ \A i \in 1..Len(fsCalls) :
          /\ fsCalls[i].op = "readFile" => IsMatchedPath(fsCalls[i].path)
          /\ fsCalls[i].op = "readdir" => fsCalls[i].path \in SiteDirsAll
    /\ (io # None /\ io[1].op = "readFile") => IsMatchedPath(io[1].path)
    /\ (io # None /\ io[1].op = "readdir") => io[1].path \in SiteDirsAll
    /\ error = Some("FilesystemError") =>
          /\ fsCalls # <<>>
          /\ ~fsCalls[Len(fsCalls)].ok
          /\ \/ /\ fsCalls[Len(fsCalls)].op = "readFile"
                /\ IsMatchedPath(fsCalls[Len(fsCalls)].path)
             \/ /\ fsCalls[Len(fsCalls)].op = "readdir"
                /\ fsCalls[Len(fsCalls)].path \in SiteDirsAll
    /\ (content # None /\ pc = "loaded") =>
          \A f \in SiteFiles :
              IF IsNitroliteDoc(f) THEN Settled("readFile", f.path)
              ELSE ~Called(f.path)

\* C25 witness: a collection that went through, past a file below
\* nitrolite that is no document and was never read.
C25_Witness ==
    /\ pc = "loaded"
    /\ Len(Collected) >= 1
    /\ \E f \in SiteFiles :
          /\ ~IsDocFile(f)
          /\ Includes(f.path, NITROLITE)
          /\ ~Called(f.path)

\* No listing or read is there twice, none is of a link taken for a
\* directory, and there are never more activations than directories.
WalkOnce ==
    /\ \A i, j \in 1..Len(fsCalls) :
          (fsCalls[i].op = fsCalls[j].op /\ fsCalls[i].path = fsCalls[j].path)
              => i = j
    /\ \A i \in 1..Len(fsCalls) :
          /\ fsCalls[i].op = "readdir" => fsCalls[i].path \in SiteDirsAll
          /\ fsCalls[i].op = "readFile" => IsMatchedPath(fsCalls[i].path)
    /\ (io # None /\ io[1].op = "readdir") =>
          io[1].path \in SiteDirsAll /\ ~Called(io[1].path)
    /\ (io # None /\ io[1].op = "readFile") =>
          IsMatchedPath(io[1].path) /\ ~Called(io[1].path)
    /\ Len(stack) <= Cardinality(SiteDirsAll)
    /\ \A k, m \in 1..Len(stack) : stack[k].dir = stack[m].dir => k = m
    /\ pc = "loaded" =>
          /\ \A d \in SiteDirsAll : Settled("readdir", d)
          /\ \A f \in SiteFiles : IsNitroliteDoc(f) => Settled("readFile", f.path)
          /\ Len(fsCalls) = Cardinality(SiteDirsAll)
                  + Cardinality({ f \in SiteFiles : IsNitroliteDoc(f) })

\* C26: loadContent comes to an end, resolved or rejected; on the way every
\* directory is listed once and every matching entry read once, none again;
\* a symbolic link is never listed, so a link to a directory above it starts
\* no second walk.
C26_TerminatesOnce ==
    /\ []WalkOnce
    /\ (pc = "loadContent") ~> (pc \in {"loaded", "failed"})

\* C26 witness: a collection that went through a directory holding a link
\* to the directory above it, and documents.
C26_Witness ==
    /\ pc = "loaded"
    /\ Len(Collected) >= 1
    /\ \E i \in 1..Len(tree[1].entries[1].entries) :
          /\ tree[1].entries[1].entries[i].kind = "link"
          /\ tree[1].entries[1].entries[i].content = PARENT

\* C27: the route table is looked at and llms.txt written only once the
\* write of llms-full.txt has gone through; so llms.txt written by this
\* build implies llms-full.txt written by it before, and when postBuild
\* fails later, on the route table or on the write of llms.txt,
\* llms-full.txt stays as this build wrote it.
C27_FullBeforeIndex ==
    /\ pc = "postBuildRoutes" =>
          /\ io = None
          /\ written = << LLMS_FULL >>
          /\ fsCalls[Len(fsCalls)] = Call("writeFile", LLMS_FULL, TRUE)
    /\ pc = "postBuild" => written = <<>>
    /\ Wrote(LLMS_TXT) => written = << LLMS_FULL, LLMS_TXT >>
    /\ \A i \in 1..Len(fsCalls) :
          fsCalls[i].op = "writeFileSync" =>
              /\ i > 1
              /\ fsCalls[i - 1] = Call("writeFile", LLMS_FULL, TRUE)
    /\ (pc = "failed" /\ content # None
           /\ (error = Some("TypeError")
                 \/ (fsCalls # <<>> /\ fsCalls[Len(fsCalls)].op = "writeFileSync"))) =>
          /\ written = << LLMS_FULL >>
          /\ out[LLMS_FULL] = Some(Join(Collected, SEPARATOR))

\* C27 witness: the write of llms.txt failed; llms-full.txt holds the two
\* documents of this build and llms.txt what it held before.
C27_Witness ==
    /\ pc = "failed"
    /\ fsCalls[Len(fsCalls)] = Call("writeFileSync", LLMS_TXT, FALSE)
    /\ Len(Collected) = 2
    /\ out[LLMS_FULL] = Some(Join(Collected, SEPARATOR))
    /\ out[LLMS_TXT] = Some(Stale)

\* The docs of routes[i].routes[j], if that sub-route carries any
DocsAt(i, j) ==
    LET r == routes[i].routes[1][j]
    IN  IF r.props = None THEN None
        ELSE IF r.props[1].version = None THEN None
        ELSE r.props[1].version[1].docs

\* C28: what postBuild does with the route table depends on the first
\* top-level route of the docs plugin and on its first sub-route at "/"
\* alone: llms.txt is written exactly when that sub-route carries
\* version.docs and is the index of those docs, whatever later routes of the
\* docs plugin, later sub-routes at "/" or nodes further down carry.
C28_FirstTopLevelNode ==
    EmitOver =>
        /\ Wrote(LLMS_TXT) <=> HasDocs
        /\ Wrote(LLMS_TXT) =>
              \E i \in 1..Len(routes) :
                  /\ routes[i].plugin.name = DOCS_PLUGIN
                  /\ \A k \in 1..(i - 1) : routes[k].plugin.name # DOCS_PLUGIN
                  /\ \E j \in 1..Len(routes[i].routes[1]) :
                        /\ routes[i].routes[1][j].path = "/"
                        /\ \A k \in 1..(j - 1) : routes[i].routes[1][k].path # "/"
                        /\ DocsAt(i, j) # None
                        /\ out[LLMS_TXT] =
                              Some(Header \o Join([n \in 1..Len(DocsAt(i, j)[1]) |->
                                                      Bullet(DocsAt(i, j)[1][n])],
                                                  <<"\n">>))
        /\ (\A i \in 1..Len(routes) : routes[i].plugin.name # DOCS_PLUGIN) =>
              ~Wrote(LLMS_TXT)

\* C28 witness: an index written from the first of two routes of the docs
\* plugin and the first of its two sub-routes at "/"; the later ones carry
\* other docs.
C28_Witness ==
    /\ pc = "done"
    /\ Wrote(LLMS_TXT)
    /\ Len(routes) = 2
    /\ \A i \in 1..2 : routes[i].plugin.name = DOCS_PLUGIN
    /\ Len(routes[1].routes[1]) = 2
    /\ \A j \in 1..2 : routes[1].routes[1][j].path = "/"
    /\ DocsAt(1, 1) # None /\ DocsAt(1, 1) # DocsAt(1, 2)
    /\ DocsAt(1, 1) # DocsAt(2, 1)
    /\ Len(DocsAt(1, 1)[1]) >= 1

\* The text in lower case, for the letters the names are written with
Lower(s) ==
    [i \in 1..Len(s) |->
        CASE s[i] = "N" -> "n" [] s[i] = "I" -> "i" [] s[i] = "T" -> "t"
          [] s[i] = "R" -> "r" [] s[i] = "O" -> "o" [] s[i] = "L" -> "l"
          [] s[i] = "E" -> "e" [] s[i] = "M" -> "m" [] s[i] = "D" -> "d"
          [] s[i] = "X" -> "x" [] OTHER -> s[i]]

\* The names of the directories between the content root and the file
DirsAbove(f) ==
    LET segs == Split(SubSeq(f.path, Len(contentDir) + 2, Len(f.path)), "/")
    IN  { segs[i] : i \in 1..(Len(segs) - 1) }

WasRead(f) == Settled("readFile", f.path)

\* C29: of the files below the content root, loadContent reads exactly
\* those whose name ends in ".md" or ".mdx" and whose whole path has
\* "nitrolite" in it: a document with it in its own name, a document below
\* a directory with it in its name, and every document when the path of
\* the content root has it; a name with it in another case or with the
\* extension in upper case does not count.
C29_WholePathFilter ==
    pc = "loaded" =>
        /\ Len(Collected) = Cardinality({ f \in SiteFiles : WasRead(f) })
        /\ \A f \in SiteFiles :
              /\ WasRead(f) => \E i \in 1..Len(Collected) : Collected[i] = f.content
              /\ ~WasRead(f) => ~Called(f.path)
              /\ (IsDocFile(f) /\ Includes(f.name, NITROLITE)) => WasRead(f)
              /\ (IsDocFile(f) /\ \E d \in DirsAbove(f) : Includes(d, NITROLITE))
                    => WasRead(f)
              /\ (IsDocFile(f) /\ Includes(siteDir, NITROLITE)) => WasRead(f)
              /\ WasRead(f) =>
                    /\ IsDocFile(f)
                    /\ \/ Includes(f.name, NITROLITE)
                       \/ \E d \in DirsAbove(f) : Includes(d, NITROLITE)
                       \/ Includes(siteDir, NITROLITE)
              /\ (~IsDocFile(f) /\ IsDocFile([name |-> Lower(f.name)])) => ~WasRead(f)
              /\ (~Includes(f.path, NITROLITE) /\ Includes(Lower(f.path), NITROLITE))
                    => ~WasRead(f)

\* C29 witness: below a content root with "nitrolite" in its path, the
\* documents of a directory without it are all collected, and the file with
\* the extension in upper case is not.
C29_Witness ==
    /\ pc = "loaded"
    /\ Includes(siteDir, NITROLITE)
    /\ \E f \in SiteFiles :
          /\ f.name = FileNameA
          /\ DirsAbove(f) = { DirNameG }
          /\ WasRead(f)
    /\ \E f \in SiteFiles : f.name = <<"a",".","M","D">> /\ ~WasRead(f)
    /\ Len(Collected) = 3

\* C30: loadContent lists every directory below the content root, with or
\* without "nitrolite" in its path, and reads none, also not one whose name
\* ends in ".md" or ".mdx"; so a document is collected however the
\* directories above the one that makes it match are named.
C30_DirsTraversed ==
    /\ \A i \in 1..Len(fsCalls) :
          fsCalls[i].op = "readFile" => fsCalls[i].path \notin SiteDirsAll
    /\ (io # None /\ io[1].op = "readFile") => io[1].path \notin SiteDirsAll
    /\ pc = "loaded" =>
          /\ \A d \in SiteDirsAll : Settled("readdir", d)
          /\ Len(Collected) = Cardinality({ f \in SiteFiles : IsNitroliteDoc(f) })
          /\ \A f \in SiteFiles : IsNitroliteDoc(f) => WasRead(f)

\* C30 witness: a walk that went through a directory without "nitrolite"
\* in its path to a document further down, and listed a directory named
\* like a document.
C30_Witness ==
    /\ pc = "loaded"
    /\ \E d \in SiteDirsAll :
          /\ ~Includes(d, NITROLITE)
          /\ Settled("readdir", d)
          /\ \E f \in SiteFiles : StartsWith(f.path, d \o <<"/">>) /\ WasRead(f)
    /\ \E d \in SiteDirsAll :
          /\ EndsWith(d, EXT_MD)
          /\ Includes(d, NITROLITE)
          /\ Settled("readdir", d)
          /\ ~Settled("readFile", d)

====
